---------------------------- MODULE Spec2Model ----------------------------
(***************************************************************************)
(* Model of the checkpoint/restart collection of src/fem/datacollection.cpp *)
(* (DataCollection and VisItDataCollection): one collection object, the    *)
(* file system it writes to and reads from, and the heap of mesh and field *)
(* objects it borrows from the caller or allocates in Load.                *)
(*                                                                         *)
(* Strings are sequences of one-character strings, so that concatenation,  *)
(* find, substr and the std::map key order are computed, not assumed.      *)
(***************************************************************************)
EXTENDS Integers, Sequences, FiniteSets, TLC

\* dc, fs, heap, hist: a caller using one collection in one process.
\* ranks, net: the processes of a parallel run inside Save, and the results
\* of MPI_Bcast on their way to each process; fs and heap are shared.
\* pad: arguments and results of the string helpers.
VARIABLES dc, fs, heap, hist, ranks, net, pad

vars == <<dc, fs, heap, hist, ranks, net, pad>>

----------------------------------------------------------------------------
(* Bounds of the model                                                      *)

\* operations a caller performs in one behaviour, after the first
\* construction
MaxOps == 5
\* largest cycle number a caller passes to SetCycle or Load
MaxCycle == 1
\* largest pad_digits the padding specification formats with
MaxPad == 2
\* largest rank the padding specification formats
MaxRank == 12

----------------------------------------------------------------------------
(* Strings                                                                  *)

\* the characters the model's strings use, in increasing character code
Alphabet ==
  <<"%", "-", ".", "/", "0", "1", "2", "3", "4", "5", "6", "7", "8", "9",
    "_", "a", "b", "d", "e", "f", "h", "m", "o", "r", "s", "t">>

CharCode(c) == CHOOSE i \in 1..Len(Alphabet) : Alphabet[i] = c

\* std::string operator< : the key order of std::map<string, ...>
RECURSIVE StrLess(_, _)
StrLess(a, b) ==
  IF b = <<>> THEN FALSE
  ELSE IF a = <<>> THEN TRUE
  ELSE IF Head(a) = Head(b) THEN StrLess(Tail(a), Tail(b))
  ELSE CharCode(Head(a)) < CharCode(Head(b))

\* the keys of a std::map in iteration order (begin() .. end())
RECURSIVE KeysInOrder(_)
KeysInOrder(S) ==
  IF S = {} THEN <<>>
  ELSE LET first == CHOOSE k \in S : \A o \in S \ {k} : StrLess(k, o)
       IN  <<first>> \o KeysInOrder(S \ {first})

DigitChars == <<"0", "1", "2", "3", "4", "5", "6", "7", "8", "9">>

RECURSIVE NatDigits(_)
NatDigits(n) ==
  IF n < 10 THEN <<DigitChars[n + 1]>>
  ELSE NatDigits(n \div 10) \o <<DigitChars[(n % 10) + 1]>>

\* ss << i : decimal digits, a leading '-' for a negative number
to_string(i) == IF i < 0 THEN <<"-">> \o NatDigits(-i) ELSE NatDigits(i)

RECURSIVE Fill(_, _)
Fill(c, n) == IF n <= 0 THEN <<>> ELSE <<c>> \o Fill(c, n - 1)

\* a formatting without setw and setfill
to_unpadded_string(i, digits) == to_string(i)

\* oss << setw(digits) << setfill('0') << i : fill on the left up to the
\* width, never truncating
to_padded_string(i, digits) ==
  LET s == to_string(i) IN Fill("0", digits - Len(s)) \o s

DigitValue(c) == (CHOOSE k \in 1..10 : DigitChars[k] = c) - 1

IsDigit(c) == \E k \in 1..10 : DigitChars[k] = c

RECURSIVE ParseNat(_, _)
ParseNat(s, acc) ==
  IF s = <<>> \/ ~IsDigit(Head(s)) THEN acc
  ELSE ParseNat(Tail(s), 10 * acc + DigitValue(Head(s)))

\* stringstream(str) >> i
to_int(str) ==
  IF str # <<>> /\ Head(str) = "-" THEN 0 - ParseNat(Tail(str), 0)
  ELSE ParseNat(str, 0)

\* std::string::find(ch): the first position (1-based), 0 for npos
find(str, ch) ==
  IF \E i \in 1..Len(str) : str[i] = ch
  THEN CHOOSE i \in 1..Len(str) :
         str[i] = ch /\ \A j \in 1..(i - 1) : str[j] # ch
  ELSE 0

\* str.substr(0, n)
substr0(str, n) == SubSeq(str, 1, n)


----------------------------------------------------------------------------
(* Values of the program                                                    *)

NULL == 0

NO_ERROR == "NO_ERROR"
READ_ERROR == "READ_ERROR"
WRITE_ERROR == "WRITE_ERROR"

pad_digits_default == 6

\* collection names a caller constructs a collection with
Names == {<<"r">>, <<"a", "_", "b">>}

\* field names a caller registers
FieldNames == {<<"f">>, <<"m", "e", "s", "h">>}

\* arguments a caller passes to SetPrefixPath (besides the null pointer)
PrefixArgs == {<<>>, <<"o">>, <<"o", "/">>}

\* the caller's own objects, a serial Mesh and a GridFunction; the objects
\* Load allocates get the numbers after them
CallerMeshes == {1}
CallerFields == {2}
CallerObjs == CallerMeshes \cup CallerFields

CallerHeap ==
  [p \in CallerObjs |->
     IF p \in CallerMeshes
     THEN [kind |-> "mesh", origin |-> "caller", released |-> 0,
           sdim |-> 3, dim |-> 2, vdim |-> 0,
           par |-> FALSE, rank |-> 0, nranks |-> 1]
     ELSE [kind |-> "field", origin |-> "caller", released |-> 0,
           sdim |-> 0, dim |-> 0, vdim |-> 2,
           par |-> FALSE, rank |-> 0, nranks |-> 1]]

\* a std::map as a function on the set of its keys
EmptyMap == [k \in {} |-> NULL]
Put(m, k, v) == [x \in (DOMAIN m) \cup {k} |-> IF x = k THEN v ELSE m[x]]

\* VisItFieldInfo(association, num_components)
VisItFieldInfo(assoc, comps) == [association |-> assoc, num_components |-> comps]

Nodes == <<"n", "o", "d", "e", "s">>

\* the state the operations thread through: the collection, the file system,
\* the heap, the I/O calls made by the running operation, the objects it
\* allocated, and the local variable err of SaveMesh
World(d, f, h) ==
  [dc |-> d, fs |-> f, heap |-> h, log |-> <<>>, allocd |-> {}, err |-> 0]

Event(ev, what, name, path, ok) ==
  [ev |-> ev, what |-> what, name |-> name, path |-> path, ok |-> ok]
Emit(w, e) == [w EXCEPT !.log = Append(@, e)]

Live(w) == w.dc.status = "live"

\* error = e
SetError(w, e) == [w EXCEPT !.dc.error = e]

\* the process dies: a null handle is dereferenced, or the mesh or field
\* reader is given a stream that holds no mesh or field
Crash(w) == [w EXCEPT !.dc.status = "crashed"]

\* delete p
Delete(w, p) ==
  IF p = NULL THEN w ELSE [w EXCEPT !.heap[p].released = @ + 1]

\* the object allocated last
LastId(w) == Cardinality(DOMAIN w.heap)

\* new Mesh(file, 1, 1) / new GridFunction(mesh, file): the next free object
NewAt(w, id, content) ==
  [w EXCEPT !.heap = Put(@, id,
              [kind |-> content.kind, origin |-> "load", released |-> 0,
               sdim |-> content.sdim, dim |-> content.dim,
               vdim |-> content.vdim,
               par |-> FALSE, rank |-> 0, nranks |-> 1]),
            !.allocd = @ \cup {id}]

New(w, content) == NewAt(w, LastId(w) + 1, content)

\* what mesh->Print / gf->Save put into a file
Content(obj) ==
  [kind |-> obj.kind, sdim |-> obj.sdim, dim |-> obj.dim, vdim |-> obj.vdim]
EmptyContent == [kind |-> "empty", sdim |-> 0, dim |-> 0, vdim |-> 0]

----------------------------------------------------------------------------
(* class DataCollection                                                     *)

\* DataCollection::DataCollection(const char *collection_name)
DataCollection1(collection_name) ==
  [status |-> "live", name |-> collection_name, prefix_path |-> <<>>,
   mesh |-> NULL, myid |-> 0, num_procs |-> 1, serial |-> TRUE,
   own_data |-> FALSE, cycle |-> -1, time |-> 0,
   pad_digits |-> pad_digits_default, error |-> NO_ERROR,
   field_map |-> EmptyMap,
   spatial_dim |-> 0, topo_dim |-> 0, visit_max_levels_of_detail |-> 0,
   field_info_map |-> EmptyMap]

\* dynamic_cast<ParMesh*>(mesh) is not null
IsParMesh(d, h) == d.mesh # NULL /\ h[d.mesh].par

\* the MFEM_USE_MPI part of the constructor and of SetMesh: a ParMesh gives
\* the collection its rank and the number of ranks
ParMeshRank(d, h) ==
  IF IsParMesh(d, h)
  THEN [d EXCEPT !.myid = h[d.mesh].rank, !.num_procs = h[d.mesh].nranks,
                 !.serial = FALSE]
  ELSE d

\* DataCollection::DataCollection(const char *collection_name, Mesh *_mesh)
DataCollection2(collection_name, _mesh, h) ==
  ParMeshRank([DataCollection1(collection_name) EXCEPT !.mesh = _mesh], h)

\* if (own_data) { delete p; }
DeleteIfOwned(w, p) == IF w.dc.own_data THEN Delete(w, p) ELSE w

\* DataCollection::SetMesh, after the delete
SetMeshTo(w, new_mesh) ==
  [w EXCEPT !.dc = ParMeshRank([@ EXCEPT !.mesh = new_mesh, !.myid = 0,
                                         !.num_procs = 1, !.serial = TRUE],
                               w.heap)]

\* a SetMesh that gives up ownership, the new mesh being the caller's: the
\* variant that C32 rules out
SetMeshDisowns(w, new_mesh) ==
  [SetMeshTo(DeleteIfOwned(w, w.dc.mesh), new_mesh) EXCEPT
     !.dc.own_data = FALSE]

\* DataCollection::SetMesh
DataCollection_SetMesh(w, new_mesh) ==
  SetMeshTo(DeleteIfOwned(w, w.dc.mesh), new_mesh)

HasField(d, name) == name \in DOMAIN d.field_map

\* field_map[name], NULL for a name that is not a key
FieldOrNull(d, name) == IF HasField(d, name) THEN d.field_map[name] ELSE NULL

\* a RegisterField that overwrites the entry without deleting the value it
\* owns: the variant that C21 rules out
RegisterFieldNoDelete(w, name, gf) ==
  [w EXCEPT !.dc.field_map = Put(@, name, gf)]

\* DataCollection::RegisterField
DataCollection_RegisterField(w, name, gf) ==
  [DeleteIfOwned(w, FieldOrNull(w.dc, name)) EXCEPT
     !.dc.field_map = Put(@, name, gf)]

\* DataCollection::SetPrefixPath, prefix not null
SetPrefixPathTo(d, prefix) ==
  [d EXCEPT !.prefix_path =
     IF prefix # <<>> /\ prefix[Len(prefix)] # "/"
     THEN prefix \o <<"/">> ELSE prefix]

\* DataCollection::SetPrefixPath(NULL)
SetPrefixPathNull(d) == [d EXCEPT !.prefix_path = <<>>]

----------------------------------------------------------------------------
(* The file system                                                          *)

\* a create_directory for which "already exists" is an error too: the
\* variant that C15 rules out
MkdirErrStrict(f, dir_name, refused) ==
  IF dir_name \in f.dirs \/ refused THEN 1 ELSE 0

\* mkdir(dir_name, 0777) followed by err = (err && errno != EEXIST) ? 1 : 0;
\* refused is the case of any errno other than EEXIST
MkdirErr(f, dir_name, refused) ==
  IF dir_name \in f.dirs THEN 0 ELSE IF refused THEN 1 ELSE 0

MkdirDirs(f, dir_name, refused) ==
  IF refused THEN f.dirs ELSE f.dirs \cup {dir_name}

\* the directory an ofstream's file is created in exists (the empty path
\* is the current directory)
DirExists(f, dir) == dir = <<>> \/ dir \in f.dirs

\* ifstream file(fname); !file
CanOpen(f, fname) == fname \in DOMAIN f.files

\* the name of the working directory of the current cycle, as SaveMesh and
\* SaveOneField compute it
dir_name_of(d) ==
  IF d.cycle = -1 THEN d.prefix_path \o d.name
  ELSE d.prefix_path \o d.name \o <<"_">> \o
       to_padded_string(d.cycle, d.pad_digits)

\* the file of entity E without the rank of the process, whatever serial
\* is: the variant that C28 rules out
file_name_unsuffixed(d, dir, E) == dir \o <<"/">> \o E

\* the file of entity E in a directory
file_name_of(d, dir, E) ==
  IF d.serial THEN dir \o <<"/">> \o E
  ELSE dir \o <<"/">> \o E \o <<".">> \o to_padded_string(d.myid, d.pad_digits)

MeshStr == <<"m", "e", "s", "h">>
RootExt == <<".", "m", "f", "e", "m", "_", "r", "o", "o", "t">>

\* static int create_directory(dir_name, mesh, myid): rank 0 and every
\* process without a ParMesh call mkdir; the other ranks of a ParMesh only
\* receive the result of rank 0's mkdir
create_directory(w, what, dir_name, refused) ==
  Emit([w EXCEPT !.err = MkdirErr(w.fs, dir_name, refused),
                 !.fs.dirs = MkdirDirs(w.fs, dir_name, refused)],
       Event(IF w.dc.myid = 0 \/ ~IsParMesh(w.dc, w.heap)
             THEN "mkdir" ELSE "bcast",
             what, <<>>, dir_name, MkdirErr(w.fs, dir_name, refused) = 0))

\* if (err) { error = WRITE_ERROR; return; }
ErrorIfErr(w) == IF w.err # 0 THEN SetError(w, WRITE_ERROR) ELSE w

\* the stream of an output file opens unless its directory is missing or
\* the file system refuses
Opens(w, dir, refused) == DirExists(w.fs, dir) /\ ~refused

\* a write that resets error when the stream is good: the variant that C11
\* rules out
WrittenResets(w, path, obj, opened) ==
  IF obj = NULL THEN Crash(w)
  ELSE IF opened
  THEN SetError([w EXCEPT !.fs.files = Put(@, path, Content(w.heap[obj]))],
                NO_ERROR)
  ELSE SetError(w, WRITE_ERROR)

\* object->Print/Save(file); if (!file) { error = WRITE_ERROR; } on a stream
\* that was opened or not; a null object is dereferenced
Written(w, path, obj, opened) ==
  IF obj = NULL
  THEN Crash(IF opened
             THEN [w EXCEPT !.fs.files = Put(@, path, EmptyContent)]
             ELSE w)
  ELSE IF opened
  THEN [w EXCEPT !.fs.files = Put(@, path, Content(w.heap[obj]))]
  ELSE SetError(w, WRITE_ERROR)

\* ofstream file(path); object->Print/Save(file); !file
WriteFile(w, what, E, dir, path, obj, refused) ==
  Written(Emit(w, Event("write", what, E, path,
                        Opens(w, dir, refused) /\ obj # NULL)),
          path, obj, Opens(w, dir, refused))

\* DataCollection::SaveMesh, the prefix path
SaveMesh_Prefix(w, o) ==
  IF w.dc.prefix_path # <<>>
  THEN ErrorIfErr(create_directory(w, "prefix", w.dc.prefix_path, o.mk_prefix))
  ELSE w

\* DataCollection::SaveMesh, the directory of the cycle
SaveMesh_Cycle(w, o) ==
  IF w.err # 0 THEN w
  ELSE ErrorIfErr(create_directory(w, "cycle", dir_name_of(w.dc), o.mk_dir))

\* a SaveMesh that writes the mesh file whatever err is: the variant that
\* C7 rules out
SaveMesh_WriteAlways(w, o) ==
  WriteFile(w, "mesh", MeshStr, dir_name_of(w.dc),
            file_name_of(w.dc, dir_name_of(w.dc), MeshStr),
            w.dc.mesh, o.mesh)

\* DataCollection::SaveMesh, the mesh file
SaveMesh_Write(w, o) ==
  IF w.err # 0 THEN w
  ELSE WriteFile(w, "mesh", MeshStr, dir_name_of(w.dc),
                 file_name_of(w.dc, dir_name_of(w.dc), MeshStr),
                 w.dc.mesh, o.mesh)

\* DataCollection::SaveMesh; o says which calls the file system refuses
SaveMesh(w, o) == SaveMesh_Write(SaveMesh_Cycle(SaveMesh_Prefix(w, o), o), o)

\* a SaveOneField that drops the handle of the field it has written: the
\* variant that C34 rules out
SaveOneFieldForgets(w, field_name, o) ==
  [WriteFile(w, "field", field_name, dir_name_of(w.dc),
             file_name_of(w.dc, dir_name_of(w.dc), field_name),
             w.dc.field_map[field_name], field_name \in o.fields)
     EXCEPT !.dc.field_map[field_name] = NULL]

\* DataCollection::SaveOneField
SaveOneField(w, field_name, o) ==
  WriteFile(w, "field", field_name, dir_name_of(w.dc),
            file_name_of(w.dc, dir_name_of(w.dc), field_name),
            w.dc.field_map[field_name], field_name \in o.fields)

\* the loop of DataCollection::Save over field_map, in key order
RECURSIVE SaveFieldsFrom(_, _, _)
SaveFieldsFrom(w, names, o) ==
  IF names = <<>> \/ ~Live(w) THEN w
  ELSE SaveFieldsFrom(SaveOneField(w, Head(names), o), Tail(names), o)

\* a loop over field_map that stops at the first field whose write failed
RECURSIVE SaveFieldsUntilError(_, _, _)
SaveFieldsUntilError(w, names, o) ==
  IF names = <<>> \/ ~Live(w) \/ w.dc.error # NO_ERROR THEN w
  ELSE SaveFieldsUntilError(SaveOneField(w, Head(names), o), Tail(names), o)

\* a Save that is fail-fast on field writes: the variant that C8 rules out
SaveFieldsFailFast(w, o) ==
  IF ~Live(w) THEN w
  ELSE SaveFieldsUntilError(w, KeysInOrder(DOMAIN w.dc.field_map), o)

\* DataCollection::Save, after SaveMesh
SaveFields(w, o) ==
  IF ~Live(w) THEN w
  ELSE IF w.dc.error # NO_ERROR THEN w
  ELSE SaveFieldsFrom(w, KeysInOrder(DOMAIN w.dc.field_map), o)

\* DataCollection::Save
DataCollection_Save(w, o) == SaveFields(SaveMesh(w, o), o)

\* a SaveField that writes every registered field, whatever the name: the
\* variant that C24 rules out
SaveFieldAll(w, field_name, o) == SaveFields(w, o)

\* DataCollection::SaveField
SaveField(w, field_name, o) ==
  IF field_name \in DOMAIN w.dc.field_map
  THEN SaveOneField(w, field_name, o) ELSE w

\* the loop of DataCollection::DeleteData over field_map
RECURSIVE DeleteFieldsFrom(_, _)
DeleteFieldsFrom(w, names) ==
  IF names = <<>> THEN w
  ELSE DeleteFieldsFrom(
         [DeleteIfOwned(w, w.dc.field_map[Head(names)]) EXCEPT
            !.dc.field_map[Head(names)] = NULL],
         Tail(names))

\* DataCollection::DeleteData, the mesh
DeleteMesh(w) == [DeleteIfOwned(w, w.dc.mesh) EXCEPT !.dc.mesh = NULL]

\* a DeleteData that forgets the fields it owns: the variant that C6 rules
\* out
DeleteNoFields(w) == w

\* DataCollection::DeleteData, the fields
DeleteFields(w) == DeleteFieldsFrom(w, KeysInOrder(DOMAIN w.dc.field_map))

\* DataCollection::DeleteData
DeleteData(w) == [DeleteFields(DeleteMesh(w)) EXCEPT !.dc.own_data = FALSE]

\* a DeleteAll that stops after DeleteData and keeps the field names: the
\* variant that C20 rules out
DeleteAllKeepsNames(w) == DeleteData(w)

\* DataCollection::DeleteAll
DataCollection_DeleteAll(w) ==
  [DeleteData(w) EXCEPT !.dc.field_map = EmptyMap]

\* the loop of DataCollection::~DataCollection over field_map
RECURSIVE DestroyFieldsFrom(_, _)
DestroyFieldsFrom(w, names) ==
  IF names = <<>> THEN w
  ELSE DestroyFieldsFrom(Delete(w, w.dc.field_map[Head(names)]), Tail(names))

\* a destructor that deletes whoever owns the data: the variant that C5
\* rules out
DestroyAlways(w) ==
  DestroyFieldsFrom(Delete(w, w.dc.mesh), KeysInOrder(DOMAIN w.dc.field_map))

\* DataCollection::~DataCollection, the deletes
DestroyOwned(w) ==
  IF w.dc.own_data
  THEN DestroyFieldsFrom(Delete(w, w.dc.mesh),
                         KeysInOrder(DOMAIN w.dc.field_map))
  ELSE w

\* DataCollection::~DataCollection
Destructor(w) == [DestroyOwned(w) EXCEPT !.dc.status = "destroyed"]

----------------------------------------------------------------------------
(* class VisItDataCollection                                                *)

\* VisItDataCollection::VisItDataCollection(const char *collection_name)
VisItDataCollection1(collection_name) ==
  [DataCollection1(collection_name) EXCEPT
     !.serial = FALSE, !.cycle = 0, !.spatial_dim = 0, !.topo_dim = 0,
     !.visit_max_levels_of_detail = 32]

\* VisItDataCollection::VisItDataCollection(const char *collection_name,
\*                                          Mesh *mesh)
VisItDataCollection2(collection_name, mesh, h) ==
  [DataCollection2(collection_name, mesh, h) EXCEPT
     !.serial = FALSE, !.cycle = 0,
     !.spatial_dim = h[mesh].sdim, !.topo_dim = h[mesh].dim,
     !.visit_max_levels_of_detail = 32]

\* spatial_dim = mesh->SpaceDimension(); topo_dim = mesh->Dimension();
DimsOfMesh(w) ==
  [w EXCEPT !.dc.spatial_dim = w.heap[w.dc.mesh].sdim,
            !.dc.topo_dim = w.heap[w.dc.mesh].dim]

\* a SetMesh that keeps the serial flag of DataCollection::SetMesh: the
\* variant that C35 rules out
VisIt_SetMeshSerial(w, new_mesh) ==
  DimsOfMesh(DataCollection_SetMesh(w, new_mesh))

\* VisItDataCollection::SetMesh
VisIt_SetMesh(w, new_mesh) ==
  DimsOfMesh([DataCollection_SetMesh(w, new_mesh) EXCEPT !.dc.serial = FALSE])

\* a RegisterField that leaves field_info_map alone: the variant that C22
\* rules out
RegisterFieldNoInfo(w, name, gf) == DataCollection_RegisterField(w, name, gf)

\* VisItDataCollection::RegisterField
VisIt_RegisterField(w, name, gf) ==
  [DataCollection_RegisterField(w, name, gf) EXCEPT
     !.dc.field_info_map = Put(@, name, VisItFieldInfo(Nodes, w.heap[gf].vdim))]

\* VisItDataCollection::DeleteAll
VisIt_DeleteAll(w) ==
  DataCollection_DeleteAll([w EXCEPT !.dc.field_info_map = EmptyMap])

\* name + "_" + to_padded_string(cycle, pad_digits)
name_cycle(d) == d.name \o <<"_">> \o to_padded_string(d.cycle, d.pad_digits)

\* the name of the root file of the current cycle, as SaveRootFile and Load
\* compute it
root_name_of(d) == d.prefix_path \o name_cycle(d) \o RootExt

\* a document that always has a "fields" member, empty when no field is
\* registered: the variant that C31 rules out
RootDocumentWithFields(d, path_str, file_ext_format) ==
  [parse_ok    |-> TRUE,
   cycle       |-> d.cycle,
   time        |-> d.time,
   domains     |-> d.num_procs,
   mesh_path   |-> path_str \o MeshStr \o file_ext_format,
   spatial_dim |-> to_string(d.spatial_dim),
   topo_dim    |-> to_string(d.topo_dim),
   max_lods    |-> to_string(d.visit_max_levels_of_detail),
   has_fields  |-> TRUE,
   order       |-> KeysInOrder(DOMAIN d.field_info_map),
   fields      |-> [n \in DOMAIN d.field_info_map |->
                      [path  |-> path_str \o n \o file_ext_format,
                       assoc |-> d.field_info_map[n].association,
                       comps |-> to_string(d.field_info_map[n].num_components)]]]

\* the document of GetVisItRootString for the path string and the file
\* extension format; order is the order in which serialize writes the
\* members of "fields", a std::map
RootDocument(d, path_str, file_ext_format) ==
  [parse_ok    |-> TRUE,
   cycle       |-> d.cycle,
   time        |-> d.time,
   domains     |-> d.num_procs,
   mesh_path   |-> path_str \o MeshStr \o file_ext_format,
   spatial_dim |-> to_string(d.spatial_dim),
   topo_dim    |-> to_string(d.topo_dim),
   max_lods    |-> to_string(d.visit_max_levels_of_detail),
   has_fields  |-> d.field_info_map # EmptyMap,
   order       |-> KeysInOrder(DOMAIN d.field_info_map),
   fields      |-> [n \in DOMAIN d.field_info_map |->
                      [path  |-> path_str \o n \o file_ext_format,
                       assoc |-> d.field_info_map[n].association,
                       comps |-> to_string(d.field_info_map[n].num_components)]]]

\* VisItDataCollection::GetVisItRootString: the document tree that is
\* serialized (picojson::value(top).serialize)
GetVisItRootString(d) ==
  RootDocument(d, name_cycle(d) \o <<"/">>,
               <<".", "%", "0">> \o to_string(d.pad_digits) \o <<"d">>)

\* ofstream root_file(root_name); root_file << GetVisItRootString();
\* if (!root_file) { error = WRITE_ERROR; }
RootWritten(w, root_name, opened) ==
  IF opened
  THEN [w EXCEPT !.fs.roots = Put(@, root_name, GetVisItRootString(w.dc))]
  ELSE SetError(w, WRITE_ERROR)

\* VisItDataCollection::SaveRootFile
SaveRootFile(w, o) ==
  IF w.dc.myid = 0
  THEN RootWritten(
         Emit(w, Event("write", "root", <<>>, root_name_of(w.dc),
                       Opens(w, w.dc.prefix_path, o.root))),
         root_name_of(w.dc), Opens(w, w.dc.prefix_path, o.root))
  ELSE w

\* VisItDataCollection::Save, after DataCollection::Save
SaveRoot(w, o) == IF Live(w) THEN SaveRootFile(w, o) ELSE w

\* VisItDataCollection::Save
VisIt_Save(w, o) == SaveRoot(DataCollection_Save(w, o), o)

\* the outcome of picojson::parse and of path.find('_') is on record
Parsed(w, ok) == Emit(w, Event("parse", "root", <<>>, <<>>, ok))

\* ParseVisItRootString, "main"
ParseMain(w, json) ==
  [w EXCEPT !.dc.cycle = json.cycle, !.dc.time = json.time,
            !.dc.num_procs = json.domains]

\* ParseVisItRootString, "fields"
ParseFields(json) ==
  IF json.has_fields
  THEN [n \in DOMAIN json.fields |->
          VisItFieldInfo(json.fields[n].assoc, to_int(json.fields[n].comps))]
  ELSE EmptyMap

\* a parse that takes the whole mesh path for the name when it holds no
\* '_', before it reports the error: the variant that C23 rules out
ParseMeshNameFirst(w, json, right_sep) ==
  IF right_sep = 0
  THEN SetError(Parsed([w EXCEPT !.dc.name = json.mesh_path], FALSE),
                READ_ERROR)
  ELSE [Parsed(w, TRUE) EXCEPT
          !.dc.name = substr0(json.mesh_path, right_sep - 1),
          !.dc.spatial_dim = to_int(json.spatial_dim),
          !.dc.topo_dim = to_int(json.topo_dim),
          !.dc.visit_max_levels_of_detail = to_int(json.max_lods),
          !.dc.field_info_map = ParseFields(json)]

\* ParseVisItRootString, "mesh" and "fields"; right_sep is path.find('_')
\* counted from 1, 0 for npos
ParseMesh(w, json, right_sep) ==
  IF right_sep = 0 THEN SetError(Parsed(w, FALSE), READ_ERROR)
  ELSE [Parsed(w, TRUE) EXCEPT
          !.dc.name = substr0(json.mesh_path, right_sep - 1),
          !.dc.spatial_dim = to_int(json.spatial_dim),
          !.dc.topo_dim = to_int(json.topo_dim),
          !.dc.visit_max_levels_of_detail = to_int(json.max_lods),
          !.dc.field_info_map = ParseFields(json)]

\* VisItDataCollection::ParseVisItRootString
ParseVisItRootString(w, json) ==
  IF ~json.parse_ok THEN SetError(Parsed(w, FALSE), READ_ERROR)
  ELSE ParseMesh(ParseMain(w, json), json, find(json.mesh_path, "_"))

\* an input file was opened, or could not be
Opened(w, what, name, path, found) ==
  Emit(w, Event("open", what, name, path, found))

\* VisItDataCollection::LoadVisItRootFile
LoadVisItRootFile(w, root_name) ==
  IF root_name \notin DOMAIN w.fs.roots
  THEN SetError(Opened(w, "root", <<>>, root_name, FALSE), READ_ERROR)
  ELSE ParseVisItRootString(Opened(w, "root", <<>>, root_name, TRUE),
                            w.fs.roots[root_name])

\* the file LoadMesh and LoadFields read for entity E
load_name_of(d, E) ==
  d.prefix_path \o name_cycle(d) \o <<"/">> \o E \o <<".">> \o
  to_padded_string(d.myid, d.pad_digits)

\* mesh = new Mesh(file, 1, 1), done
MeshLoaded(w) == DimsOfMesh([w EXCEPT !.dc.mesh = LastId(w)])

\* VisItDataCollection::LoadMesh for the file name
LoadMeshFrom(w, mesh_fname) ==
  IF ~CanOpen(w.fs, mesh_fname)
  THEN SetError(Opened(w, "mesh", MeshStr, mesh_fname, FALSE), READ_ERROR)
  ELSE IF w.fs.files[mesh_fname].kind # "mesh"
  THEN Crash(Opened(w, "mesh", MeshStr, mesh_fname, TRUE))
  ELSE MeshLoaded(New(Opened(w, "mesh", MeshStr, mesh_fname, TRUE),
                      w.fs.files[mesh_fname]))

\* VisItDataCollection::LoadMesh
LoadMesh(w) == LoadMeshFrom(w, load_name_of(w.dc, MeshStr))

\* field_map[name] = new GridFunction(mesh, file), done
FieldLoaded(w, name) == [w EXCEPT !.dc.field_map = Put(@, name, LastId(w))]

\* one turn of the loop of LoadFields; the world after it, not live or with
\* an error when the loop ends
LoadOneField(w, name, fname) ==
  IF ~CanOpen(w.fs, fname)
  THEN SetError(Opened(w, "field", name, fname, FALSE), READ_ERROR)
  ELSE IF w.fs.files[fname].kind # "field"
  THEN Crash(Opened(w, "field", name, fname, TRUE))
  ELSE FieldLoaded(New(Opened(w, "field", name, fname, TRUE),
                       w.fs.files[fname]),
                   name)

\* the loop of VisItDataCollection::LoadFields over field_info_map; ok says
\* that no turn has returned from LoadFields
RECURSIVE LoadFieldsFrom(_, _, _)
LoadFieldsFrom(w, names, ok) ==
  IF names = <<>> \/ ~ok THEN w
  ELSE LoadFieldsFrom(
         LoadOneField(w, Head(names), load_name_of(w.dc, Head(names))),
         Tail(names),
         CanOpen(w.fs, load_name_of(w.dc, Head(names)))
           /\ w.fs.files[load_name_of(w.dc, Head(names))].kind = "field")

\* VisItDataCollection::LoadFields
LoadFields(w) ==
  LoadFieldsFrom([w EXCEPT !.dc.field_map = EmptyMap],
                 KeysInOrder(DOMAIN w.dc.field_info_map), TRUE)

\* VisItDataCollection::Load: if (!error) { LoadMesh(); }
Load_Mesh(w) == IF w.dc.error = NO_ERROR THEN LoadMesh(w) ELSE w

\* VisItDataCollection::Load: if (!error) { LoadFields(); }
Load_Fields(w) ==
  IF Live(w) /\ w.dc.error = NO_ERROR THEN LoadFields(w) ELSE w

\* VisItDataCollection::Load: own_data = true, or DeleteAll()
Load_Finish(w) ==
  IF ~Live(w) THEN w
  ELSE IF w.dc.error = NO_ERROR THEN [w EXCEPT !.dc.own_data = TRUE]
  ELSE VisIt_DeleteAll(w)

\* VisItDataCollection::Load: DeleteAll(); cycle = _cycle;
Load_Start(w, _cycle) == [VisIt_DeleteAll(w) EXCEPT !.dc.cycle = _cycle]

\* VisItDataCollection::Load: LoadVisItRootFile(root_name)
Load_Root(w) == LoadVisItRootFile(w, root_name_of(w.dc))

\* VisItDataCollection::Load
Load(w, _cycle) ==
  Load_Finish(Load_Fields(Load_Mesh(Load_Root(Load_Start(w, _cycle)))))

----------------------------------------------------------------------------
(* The state machine: a caller using one collection at a time               *)

\* what the file system may refuse during one Save or SaveField of
\* collection d: the creation of a directory that does not exist yet, the
\* write of the mesh file, of a registered field's file, of the root file
Oracles(d, f) ==
  [mk_prefix : {FALSE} \cup {TRUE : x \in {d.prefix_path} \ ({<<>>} \cup f.dirs)},
   mk_dir : {FALSE} \cup {TRUE : x \in {dir_name_of(d)} \ f.dirs},
   mesh : BOOLEAN,
   fields : SUBSET (DOMAIN d.field_map),
   root : BOOLEAN]

NoRefusal ==
  [mk_prefix |-> FALSE, mk_dir |-> FALSE, mesh |-> FALSE, fields |-> {},
   root |-> FALSE]

RefuseField(n, refused) ==
  [NoRefusal EXCEPT !.fields = IF refused THEN {n} ELSE {}]

NoSave == [valid |-> FALSE]

\* the collection as it was when a Save returned without error
Snapshot(d) ==
  [valid |-> TRUE, name |-> d.name, prefix_path |-> d.prefix_path,
   cycle |-> d.cycle, field_names |-> DOMAIN d.field_map,
   field_info_map |-> d.field_info_map,
   spatial_dim |-> d.spatial_dim, topo_dim |-> d.topo_dim]

\* the collection holds object p
Holds(d, p) == d.mesh = p \/ \E n \in DOMAIN d.field_map : d.field_map[n] = p

\* a caller hands over an object it still owns: one that was not released
\* and, when the collection owns its data, not one handed over before
MayPass(p) == heap[p].released = 0 /\ (dc.own_data => ~Holds(dc, p))

W0 == World(dc, fs, heap)

\* the record of the operation that just ran
Ran(op, w, cycle_arg, clean) ==
  [hist EXCEPT !.op = op, !.log = w.log, !.allocd = w.allocd,
               !.entry = dc.error, !.cycle_arg = cycle_arg, !.clean = clean,
               !.was_fresh = hist.fresh, !.fresh = FALSE,
               !.result = NULL, !.dirs0 = fs.dirs, !.ops = @ + 1]

Commit(w, h) ==
  /\ dc' = w.dc /\ fs' = w.fs /\ heap' = w.heap /\ hist' = h
  /\ UNCHANGED <<ranks, net, pad>>

Done(op, w) == Commit(w, Ran(op, w, 0, TRUE))

FirstHist(name) ==
  [op |-> "Construct", log |-> <<>>, allocd |-> {}, entry |-> NO_ERROR,
   cycle_arg |-> 0, clean |-> TRUE, was_fresh |-> FALSE, fresh |-> TRUE,
   result |-> NULL, dirs0 |-> {}, cname |-> name, ops |-> 0,
   ever_loaded |-> FALSE, loaded_ok |-> {}, saved |-> NoSave]

\* the value of a variable that a specification does not use
Unused == <<>>

EmptyFs == [dirs |-> {}, files |-> EmptyMap, roots |-> EmptyMap]

Init ==
  /\ fs = EmptyFs
  /\ heap = CallerHeap
  /\ ranks = Unused /\ net = Unused /\ pad = Unused
  /\ \E name \in Names :
       /\ hist = FirstHist(name)
       /\ \/ dc = VisItDataCollection1(name)
          \/ \E m \in CallerMeshes : dc = VisItDataCollection2(name, m, heap)

\* a new collection of the same name, after the previous one was destroyed
\* or its process died
Construct ==
  /\ dc.status # "live"
  /\ hist.ops < MaxOps
  /\ \/ dc' = VisItDataCollection1(hist.cname)
     \/ \E m \in CallerMeshes :
          /\ heap[m].released = 0
          /\ dc' = VisItDataCollection2(hist.cname, m, heap)
  /\ hist' = [hist EXCEPT !.op = "Construct", !.log = <<>>,
                          !.allocd = {}, !.entry = NO_ERROR,
                          !.was_fresh = FALSE, !.fresh = TRUE,
                          !.result = NULL, !.dirs0 = fs.dirs,
                          !.ops = @ + 1, !.ever_loaded = FALSE]
  /\ UNCHANGED <<fs, heap, ranks, net, pad>>

Destroy ==
  /\ Live(W0)
  /\ hist.ops < MaxOps
  /\ Done("Destroy", Destructor(W0))

SetMesh ==
  /\ Live(W0)
  /\ hist.ops < MaxOps
  /\ \E m \in CallerMeshes :
       /\ MayPass(m)
       /\ Done("SetMesh", VisIt_SetMesh(W0, m))

RegisterField ==
  /\ Live(W0)
  /\ hist.ops < MaxOps
  /\ \E n \in FieldNames, gf \in CallerFields :
       /\ MayPass(gf)
       /\ Done("RegisterField", VisIt_RegisterField(W0, n, gf))

\* DataCollection::SetCycle
SetCycle ==
  /\ Live(W0)
  /\ hist.ops < MaxOps
  /\ \E c \in (0..MaxCycle) \ {dc.cycle} :
       Done("SetCycle", [W0 EXCEPT !.dc.cycle = c])

SetPrefixPath ==
  /\ Live(W0)
  /\ hist.ops < MaxOps
  /\ \E d \in ({SetPrefixPathNull(dc)} \cup
               {SetPrefixPathTo(dc, a) : a \in PrefixArgs}) \ {dc} :
       Commit([W0 EXCEPT !.dc = d],
              [Ran("SetPrefixPath", W0, 0, TRUE) EXCEPT !.fresh = hist.fresh])

SaveDone(w, clean) ==
  Commit(w, [Ran("Save", w, dc.cycle, clean) EXCEPT
               !.saved = IF Live(w) /\ w.dc.error = NO_ERROR
                         THEN Snapshot(w.dc) ELSE NoSave])

Save ==
  /\ Live(W0)
  /\ hist.ops < MaxOps
  /\ \E o \in Oracles(dc, fs) : SaveDone(VisIt_Save(W0, o), o = NoRefusal)

SaveFieldDone(w, clean) ==
  Commit(w, [Ran("SaveField", w, dc.cycle, clean) EXCEPT !.saved = NoSave])

SaveFieldCall ==
  /\ Live(W0)
  /\ hist.ops < MaxOps
  /\ \E n \in FieldNames, refused \in BOOLEAN :
       /\ (refused => n \in DOMAIN dc.field_map)
       /\ SaveFieldDone(SaveField(W0, n, RefuseField(n, refused)), ~refused)

\* DataCollection::GetField: the handle registered under the name, or NULL
GetField(d, field_name) ==
  IF HasField(d, field_name) THEN d.field_map[field_name] ELSE NULL

GetFieldDone(w, result) ==
  Commit(w, [Ran("GetField", w, 0, TRUE) EXCEPT !.fresh = hist.fresh,
                                              !.result = result])

GetFieldCall ==
  /\ Live(W0)
  /\ hist.ops < MaxOps
  /\ \E n \in FieldNames : GetFieldDone(W0, GetField(dc, n))

DeleteDataCall ==
  /\ Live(W0)
  /\ hist.ops < MaxOps
  /\ Done("DeleteData", DeleteData(W0))

DeleteAllCall ==
  /\ Live(W0)
  /\ hist.ops < MaxOps
  /\ Done("DeleteAll", VisIt_DeleteAll(W0))

LoadDone(w, c) ==
  Commit(w, [Ran("Load", w, c, TRUE) EXCEPT
               !.ever_loaded = @ \/ (Live(w) /\ w.dc.error = NO_ERROR),
               !.loaded_ok = IF Live(w) /\ w.dc.error = NO_ERROR
                             THEN @ \cup w.allocd ELSE @])

LoadCall ==
  /\ Live(W0)
  /\ hist.ops < MaxOps
  /\ \E c \in 0..MaxCycle : LoadDone(Load(W0, c), c)

Next ==
  \/ Construct
  \/ Destroy
  \/ SetMesh
  \/ RegisterField
  \/ SetCycle
  \/ SetPrefixPath
  \/ Save
  \/ SaveFieldCall
  \/ GetFieldCall
  \/ DeleteDataCall
  \/ DeleteAllCall
  \/ LoadCall

Spec == Init /\ [][Next]_vars

----------------------------------------------------------------------------
(* A caller that also uses the cycle -1 ("no cycle"), with a file system   *)
(* that refuses nothing                                                     *)

\* DataCollection::SetCycle with any cycle from -1 on
NamingSetCycle ==
  /\ Live(W0)
  /\ hist.ops < MaxOps
  /\ \E c \in (-1..MaxCycle) \ {dc.cycle} :
       Done("SetCycle", [W0 EXCEPT !.dc.cycle = c])

NamingSave ==
  /\ Live(W0)
  /\ hist.ops < MaxOps
  /\ SaveDone(VisIt_Save(W0, NoRefusal), TRUE)

NamingLoad ==
  /\ Live(W0)
  /\ hist.ops < MaxOps
  /\ \E c \in -1..MaxCycle : LoadDone(Load(W0, c), c)

NextNaming ==
  \/ Construct
  \/ Destroy
  \/ RegisterField
  \/ SetPrefixPath
  \/ NamingSetCycle
  \/ NamingSave
  \/ NamingLoad

SpecNaming == Init /\ [][NextNaming]_vars

----------------------------------------------------------------------------
(* Manifests that Load cannot use: the file on disk is not what Save wrote  *)

\* a manifest file that picojson::parse rejects
Truncated(doc) == [doc EXCEPT !.parse_ok = FALSE]

\* a manifest that parses and whose mesh path holds no '_', with tags that
\* are not those of the collection
NoUnderscore(doc) ==
  [doc EXCEPT !.mesh_path = <<"r", "/">> \o MeshStr,
              !.spatial_dim = <<"1">>, !.topo_dim = <<"1">>]

\* the file of a manifest is replaced on disk
Tamper ==
  /\ hist.ops < MaxOps
  /\ \E path \in DOMAIN fs.roots :
       \E doc \in {Truncated(fs.roots[path]), NoUnderscore(fs.roots[path])} :
         /\ doc # fs.roots[path]
         /\ Done("Tamper", [W0 EXCEPT !.fs.roots[path] = doc])

NextManifest ==
  \/ RegisterField
  \/ SetCycle
  \/ Save
  \/ Tamper
  \/ LoadCall

SpecManifest == Init /\ [][NextManifest]_vars

----------------------------------------------------------------------------
(* A parallel run: one process per rank, each with its own collection on   *)
(* its ParMesh, all calling Save on a shared file system                    *)

\* number of processes of the parallel run
NRanks == 2

Ranks == 0..(NRanks - 1)

\* the ParMesh and the GridFunction of rank r
ParMeshOf(r) == r + 1
ParFieldOf(r) == NRanks + r + 1

ParHeap ==
  [p \in 1..(2 * NRanks) |->
     IF p <= NRanks
     THEN [kind |-> "mesh", origin |-> "caller", released |-> 0,
           sdim |-> 3, dim |-> 2, vdim |-> 0,
           par |-> TRUE, rank |-> p - 1, nranks |-> NRanks]
     ELSE [kind |-> "field", origin |-> "caller", released |-> 0,
           sdim |-> 0, dim |-> 0, vdim |-> 2,
           par |-> TRUE, rank |-> p - NRanks - 1, nranks |-> NRanks]]

\* the collection of rank r: VisItDataCollection(name, pmesh), SetPrefixPath,
\* and RegisterField("f", gf) when the run has a field
WithField(w, with_field, gf) ==
  IF with_field THEN VisIt_RegisterField(w, <<"f">>, gf) ELSE w

RankCollection(r, prefix, with_field) ==
  WithField(World(SetPrefixPathTo(
                    VisItDataCollection2(<<"r">>, ParMeshOf(r), ParHeap),
                    prefix),
                  EmptyFs, ParHeap),
            with_field, ParFieldOf(r)).dc

\* the file system after an earlier run of the same processes saved cycle 0
\* with nothing refused: ranks 0..(n-1) have written
RECURSIVE CheckpointFs(_, _, _)
CheckpointFs(n, prefix, with_field) ==
  IF n = 0 THEN EmptyFs
  ELSE VisIt_Save(World(RankCollection(n - 1, prefix, with_field),
                        CheckpointFs(n - 1, prefix, with_field), ParHeap),
                  NoRefusal).fs

RankInit(d) ==
  [dc |-> d, pc |-> "idle", log |-> <<>>, err |-> 0, loaded |-> FALSE]

InitMPI ==
  /\ dc = Unused /\ hist = Unused /\ pad = Unused
  /\ heap = ParHeap
  /\ net = [r \in Ranks |-> <<>>]
  /\ \E prefix \in {<<>>, <<"o">>}, with_field \in BOOLEAN :
       /\ ranks = [r \in Ranks |-> RankInit(RankCollection(r, prefix, with_field))]
       /\ fs \in {EmptyFs, CheckpointFs(NRanks, prefix, with_field)}

\* the world of rank r
RankWorld(r) ==
  [dc |-> ranks[r].dc, fs |-> fs, heap |-> heap, log |-> ranks[r].log,
   allocd |-> {}, err |-> ranks[r].err]

\* rank r has taken a step that left it at pc, with the messages n in flight
MpiCommit(r, w, pc, n) ==
  /\ ranks' = [ranks EXCEPT ![r].dc = w.dc, ![r].log = w.log,
                            ![r].err = w.err,
                            ![r].pc = IF Live(w) THEN pc ELSE "dead"]
  /\ fs' = w.fs
  /\ heap' = w.heap
  /\ net' = n
  /\ UNCHANGED <<dc, hist, pad>>

\* a restart: rank r loads cycle 0 before it saves
MpiLoad(r) ==
  /\ ranks[r].pc = "idle"
  /\ ~ranks[r].loaded
  /\ ranks' = [ranks EXCEPT ![r].dc = Load(RankWorld(r), 0).dc,
                            ![r].loaded = TRUE]
  /\ heap' = Load(RankWorld(r), 0).heap
  /\ UNCHANGED <<fs, net, dc, hist, pad>>

\* DataCollection::SetCycle on rank r before it saves
MpiSetCycle(r) ==
  /\ ranks[r].pc = "idle"
  /\ \E c \in (0..MaxCycle) \ {ranks[r].dc.cycle} :
       ranks' = [ranks EXCEPT ![r].dc.cycle = c]
  /\ UNCHANGED <<fs, heap, net, dc, hist, pad>>

\* rank r enters VisItDataCollection::Save and DataCollection::SaveMesh
MpiSaveBegin(r) ==
  /\ ranks[r].pc = "idle"
  /\ ranks[r].dc.mesh # NULL
  /\ MpiCommit(r, [RankWorld(r) EXCEPT !.log = <<>>, !.err = 0],
               IF ranks[r].dc.prefix_path # <<>> THEN "prefix" ELSE "cycle",
               net)

\* the directory that rank r is about to create
DirOfPc(d, pc) == IF pc = "prefix" THEN d.prefix_path ELSE dir_name_of(d)

\* where SaveMesh and Save go after create_directory returned at pc
AfterDir(w, pc) ==
  IF w.err # 0 THEN "root" ELSE IF pc = "prefix" THEN "cycle" ELSE "mesh"

\* create_directory: this process calls mkdir itself
CallsMkdir(d, h) == d.myid = 0 \/ ~IsParMesh(d, h)

\* create_directory, lines 181-182: mkdir by rank 0 of a ParMesh, which then
\* has to broadcast, or by a process whose mesh is no ParMesh
MpiMkdirDone(r, w, pc) ==
  IF IsParMesh(w.dc, w.heap)
  THEN MpiCommit(r, w, IF pc = "prefix" THEN "prefix_bcast" ELSE "cycle_bcast",
                 net)
  ELSE MpiCommit(r, ErrorIfErr(w), AfterDir(w, pc), net)

MpiMkdir(r) ==
  /\ ranks[r].pc \in {"prefix", "cycle"}
  /\ CallsMkdir(ranks[r].dc, heap)
  /\ \E refused \in {FALSE} \cup
                    {TRUE : x \in {DirOfPc(ranks[r].dc, ranks[r].pc)} \ fs.dirs} :
       MpiMkdirDone(r,
                    create_directory(RankWorld(r), ranks[r].pc,
                                     DirOfPc(ranks[r].dc, ranks[r].pc), refused),
                    ranks[r].pc)

\* MPI_Bcast at the root: err is on its way to every other rank
Sent(n, r, err) == [q \in Ranks |-> IF q = r THEN n[q] ELSE Append(n[q], err)]

\* create_directory, line 185, and the if (err) of SaveMesh after it
MpiBcastRoot(r) ==
  /\ ranks[r].pc \in {"prefix_bcast", "cycle_bcast"}
  /\ MpiCommit(r, ErrorIfErr(RankWorld(r)),
               AfterDir(RankWorld(r),
                        IF ranks[r].pc = "prefix_bcast" THEN "prefix" ELSE "cycle"),
               Sent(net, r, ranks[r].err))

\* MPI_Bcast at a rank other than the root: err is what rank 0 sent
Received(w, what, dir_name, err) ==
  Emit([w EXCEPT !.err = err], Event("bcast", what, <<>>, dir_name, err = 0))

\* create_directory, line 191, and the if (err) of SaveMesh after it
MpiBcastRecv(r) ==
  /\ ranks[r].pc \in {"prefix", "cycle"}
  /\ ~CallsMkdir(ranks[r].dc, heap)
  /\ net[r] # <<>>
  /\ MpiCommit(r,
               ErrorIfErr(Received(RankWorld(r), ranks[r].pc,
                                   DirOfPc(ranks[r].dc, ranks[r].pc),
                                   Head(net[r]))),
               AfterDir([err |-> Head(net[r])], ranks[r].pc),
               [net EXCEPT ![r] = Tail(@)])

\* DataCollection::SaveMesh, the mesh file of rank r
MpiWriteMesh(r) ==
  /\ ranks[r].pc = "mesh"
  /\ \E refused \in BOOLEAN :
       MpiCommit(r, SaveMesh_Write(RankWorld(r),
                                   [NoRefusal EXCEPT !.mesh = refused]),
                 "fields", net)

\* DataCollection::Save after SaveMesh, the field files of rank r
MpiWriteFields(r) ==
  /\ ranks[r].pc = "fields"
  /\ \E refused \in SUBSET (DOMAIN ranks[r].dc.field_map) :
       MpiCommit(r, SaveFields(RankWorld(r),
                               [NoRefusal EXCEPT !.fields = refused]),
                 "root", net)

\* a SaveRootFile behind a barrier, which waits until every rank is through
\* with its data files: the variant that C27 rules out
MpiWriteRootFenced(r) ==
  /\ ranks[r].pc = "root"
  /\ \A q \in Ranks : ranks[q].pc \in {"root", "done", "dead"}
  /\ \E refused \in BOOLEAN :
       MpiCommit(r, SaveRootFile(RankWorld(r),
                                 [NoRefusal EXCEPT !.root = refused]),
                 "done", net)

\* VisItDataCollection::Save, SaveRootFile, and the return of Save
MpiWriteRoot(r) ==
  /\ ranks[r].pc = "root"
  /\ \E refused \in BOOLEAN :
       MpiCommit(r, SaveRootFile(RankWorld(r),
                                 [NoRefusal EXCEPT !.root = refused]),
                 "done", net)

NextMPI ==
  \/ \E r \in Ranks : MpiLoad(r)
  \/ \E r \in Ranks : MpiSetCycle(r)
  \/ \E r \in Ranks : MpiSaveBegin(r)
  \/ \E r \in Ranks : MpiMkdir(r)
  \/ \E r \in Ranks : MpiBcastRoot(r)
  \/ \E r \in Ranks : MpiBcastRecv(r)
  \/ \E r \in Ranks : MpiWriteMesh(r)
  \/ \E r \in Ranks : MpiWriteFields(r)
  \/ \E r \in Ranks : MpiWriteRoot(r)

SpecMPI == InitMPI /\ [][NextMPI]_vars

----------------------------------------------------------------------------
(* The rank suffix of the per-rank file names: to_padded_string applied to  *)
(* two ranks with the pad_digits of a collection                            *)

RECURSIVE Pow10(_)
Pow10(n) == IF n = 0 THEN 1 ELSE 10 * Pow10(n - 1)

\* dir_name + "/mesh." + to_padded_string(myid, pad_digits) without the
\* directory, which is the same for every rank
RankFileName(suffix) == <<"m", "e", "s", "h", ".">> \o suffix

InitPad ==
  /\ dc = Unused /\ fs = Unused /\ heap = Unused /\ hist = Unused
  /\ ranks = Unused /\ net = Unused
  /\ \E digits \in 1..MaxPad, r1 \in 0..MaxRank, r2 \in 0..MaxRank :
       pad = [pc |-> "args", digits |-> digits, r1 |-> r1, r2 |-> r2,
              s1 |-> <<>>, s2 |-> <<>>, i1 |-> 0, i2 |-> 0]

\* the two ranks format their suffix
PadFormat ==
  /\ pad.pc = "args"
  /\ pad' = [pad EXCEPT !.pc = "formatted",
                        !.s1 = to_padded_string(pad.r1, pad.digits),
                        !.s2 = to_padded_string(pad.r2, pad.digits)]
  /\ UNCHANGED <<dc, fs, heap, hist, ranks, net>>

\* the suffixes are read back as numbers
PadParse ==
  /\ pad.pc = "formatted"
  /\ pad' = [pad EXCEPT !.pc = "parsed",
                        !.i1 = to_int(pad.s1), !.i2 = to_int(pad.s2)]
  /\ UNCHANGED <<dc, fs, heap, hist, ranks, net>>

NextPad == PadFormat \/ PadParse

SpecPad == InitPad /\ [][NextPad]_vars

----------------------------------------------------------------------------
(* The I/O calls of the operation that just returned                        *)

Log == hist.log
Returned(op) == hist.op = op /\ Live(W0)

Attempted(ev, what, name) ==
  \E i \in 1..Len(Log) :
    Log[i].ev = ev /\ Log[i].what = what /\ Log[i].name = name

Failed(ev, what, name) ==
  \E i \in 1..Len(Log) :
    Log[i].ev = ev /\ Log[i].what = what /\ Log[i].name = name /\ ~Log[i].ok

Succeeded(ev, what, name) ==
  \E i \in 1..Len(Log) :
    Log[i].ev = ev /\ Log[i].what = what /\ Log[i].name = name /\ Log[i].ok

\* a directory creation (by this rank or learnt from rank 0) failed
DirFailed(what) == Failed("mkdir", what, <<>>) \/ Failed("bcast", what, <<>>)
DirAttempted(what) ==
  Attempted("mkdir", what, <<>>) \/ Attempted("bcast", what, <<>>)
DirSucceeded(what) ==
  Succeeded("mkdir", what, <<>>) \/ Succeeded("bcast", what, <<>>)

AnyFieldWrite == \E n \in FieldNames : Attempted("write", "field", n)
AnyFieldOpen == \E n \in FieldNames : Attempted("open", "field", n)
AllFieldsAttempted ==
  \A n \in DOMAIN dc.field_map : Attempted("write", "field", n)

\* the mesh file Load reads for the collection's name, cycle and rank
MeshFileOf(d) ==
  d.prefix_path \o d.name \o <<"_">> \o to_padded_string(d.cycle, d.pad_digits)
  \o <<"/">> \o MeshStr \o <<".">> \o to_padded_string(d.myid, d.pad_digits)

----------------------------------------------------------------------------
(* Claims                                                                   *)

\* the Load that just ran was called with cycle c >= 0 on a fresh
\* collection that has the name and prefix path of the collection whose
\* Save at cycle c returned without error
FreshLoadOfSave ==
  /\ hist.op = "Load"
  /\ hist.was_fresh
  /\ hist.saved.valid
  /\ hist.saved.name = hist.cname
  /\ hist.saved.prefix_path = dc.prefix_path
  /\ hist.saved.cycle = hist.cycle_arg
  /\ hist.cycle_arg >= 0

\* C1: round trip. A Save at cycle c followed by Load(c) on a fresh
\* collection constructed with the same name and prefix path ends with
\* error = NO_ERROR and with the field names, the per-field association and
\* component count and the spatial and topological dimension the saving
\* collection had, for every collection name and set of registered fields.
C1_RoundTrip ==
  FreshLoadOfSave =>
    /\ Live(W0)
    /\ dc.error = NO_ERROR
    /\ DOMAIN dc.field_map = hist.saved.field_names
    /\ dc.field_info_map = hist.saved.field_info_map
    /\ dc.spatial_dim = hist.saved.spatial_dim
    /\ dc.topo_dim = hist.saved.topo_dim

LoadedAll ==
  /\ dc.error = NO_ERROR
  /\ dc.own_data
  /\ dc.mesh # NULL
  /\ \A n \in DOMAIN dc.field_info_map :
       n \in DOMAIN dc.field_map /\ dc.field_map[n] # NULL

LoadedNothing ==
  /\ ~dc.own_data
  /\ dc.mesh = NULL
  /\ dc.field_map = EmptyMap
  /\ dc.field_info_map = EmptyMap

\* C2: whenever Load returns, either error = NO_ERROR, own_data is true, the
\* mesh is present and every name of field_info_map has a loaded field, or
\* error = READ_ERROR, own_data is false, the mesh is absent and field_map
\* and field_info_map are empty.
C2_LoadAllOrNothing ==
  Returned("Load") =>
    \/ LoadedAll
    \/ (dc.error = READ_ERROR /\ LoadedNothing)

\* C3: no leak on a failed Load. When Load returns with an error, every
\* mesh and field object this Load allocated has been released.
C3_NoLeakOnFailedLoad ==
  (Returned("Load") /\ dc.error # NO_ERROR) =>
    \A p \in hist.allocd : heap[p].released = 1

\* the events of Load come in stage order and stop at the first failure
LoadStagesInOrder ==
  \A i \in 1..Len(Log) :
    /\ (Log[i].ev = "parse") =>
         \E j \in 1..(i - 1) :
           Log[j].ev = "open" /\ Log[j].what = "root" /\ Log[j].ok
    /\ (Log[i].ev = "open" /\ Log[i].what = "mesh") =>
         \E j \in 1..(i - 1) : Log[j].ev = "parse" /\ Log[j].ok
    /\ (Log[i].ev = "open" /\ Log[i].what = "field") =>
         /\ \E j \in 1..(i - 1) :
              Log[j].ev = "open" /\ Log[j].what = "mesh" /\ Log[j].ok
         /\ \A j \in 1..(i - 1) : Log[j].ok

\* C4: Load is stage-ordered and fail-fast. The mesh file is opened only
\* after the manifest was read and parsed without error, field files only
\* after the mesh was read, no field file after the first one that cannot be
\* opened; and when the mesh file is missing, READ_ERROR is set and no field
\* file is opened.
C4_LoadStageOrder ==
  Returned("Load") =>
    /\ LoadStagesInOrder
    /\ ~CanOpen(fs, MeshFileOf(dc)) =>
         (dc.error = READ_ERROR /\ ~AnyFieldOpen)

CallerReleases == [p \in CallerObjs |-> heap[p].released]

\* C5: borrowed data is never released. No operation of a collection that
\* has not completed a successful Load (SetMesh, RegisterField, Save,
\* SaveField, DeleteData, DeleteAll, a failed Load, the destructor) releases
\* a mesh or field object of the caller.
C5_BorrowedNeverReleased ==
  [][(~hist.ever_loaded) => CallerReleases' = CallerReleases]_vars

\* a collection that never loaded and held a mesh and a field of the caller
\* was destroyed
C5_Witness ==
  /\ hist.op = "Destroy"
  /\ ~hist.ever_loaded
  /\ dc.mesh \in CallerMeshes
  /\ \E n \in DOMAIN dc.field_map : dc.field_map[n] \in CallerFields

\* C6: owned data is released exactly once. Every object allocated by a
\* successful Load is either still held by the live collection that owns
\* its data and was never released, or was released exactly once.
C6_OwnedReleasedOnce ==
  \A p \in hist.loaded_ok :
    /\ heap[p].released <= 1
    /\ (heap[p].released = 0) <=> (Live(W0) /\ dc.own_data /\ Holds(dc, p))

\* a loaded mesh and a loaded field were released by DeleteData or
\* DeleteAll, and the collection was destroyed after that
C6_Witness ==
  /\ hist.op = "Destroy"
  /\ ~dc.own_data
  /\ \E p \in hist.loaded_ok : heap[p].kind = "mesh"
  /\ \E p \in hist.loaded_ok : heap[p].kind = "field"
  /\ \A p \in hist.loaded_ok : heap[p].released = 1

\* C7: Save is fail-fast on directory creation. When the creation of the
\* prefix path or of the cycle directory fails, error becomes WRITE_ERROR
\* and the Save writes neither the mesh file nor a field file; when the
\* creation of the prefix path fails, the cycle directory is not attempted.
C7_SaveFailFastOnDirectory ==
  hist.op = "Save" =>
    /\ (DirFailed("prefix") \/ DirFailed("cycle")) =>
         /\ dc.error = WRITE_ERROR
         /\ ~Attempted("write", "mesh", MeshStr)
         /\ ~AnyFieldWrite
    /\ DirFailed("prefix") => ~DirAttempted("cycle")

\* a Save with a mesh and a registered field whose prefix path could not be
\* created
C7_Witness ==
  /\ hist.op = "Save"
  /\ DirFailed("prefix")
  /\ dc.mesh # NULL
  /\ dc.field_map # EmptyMap

\* C8: partial-save independence. In a Save that created its directories
\* and wrote the mesh and in which the write of a field failed, error is
\* WRITE_ERROR and the write of every registered field was attempted,
\* wherever the failing field comes in the key order.
C8_FieldFailuresIndependent ==
  (Returned("Save") /\ DirSucceeded("cycle")
     /\ Succeeded("write", "mesh", MeshStr)
     /\ \E n \in FieldNames : Failed("write", "field", n)) =>
    /\ dc.error = WRITE_ERROR
    /\ AllFieldsAttempted

\* the first field in key order failed and the one after it was written
C8_Witness ==
  /\ Returned("Save")
  /\ DirSucceeded("cycle")
  /\ Succeeded("write", "mesh", MeshStr)
  /\ Failed("write", "field", <<"f">>)
  /\ Succeeded("write", "field", MeshStr)

\* C9: a mesh-file write failure does not abort Save. When both directory
\* creations succeed and the write of the mesh file fails, error is
\* WRITE_ERROR and the write of every registered field is attempted.
C9_MeshFailureDoesNotAbort ==
  (Returned("Save") /\ DirSucceeded("cycle")
     /\ Failed("write", "mesh", MeshStr)) =>
    /\ dc.error = WRITE_ERROR
    /\ AllFieldsAttempted

\* C10: a prior error does not block a later Save. A Save entered with
\* error = WRITE_ERROR, with nothing refused by the file system, attempts
\* the mesh file and every registered field file.
C10_PriorErrorDoesNotBlock ==
  (Returned("Save") /\ hist.entry = WRITE_ERROR /\ hist.clean) =>
    /\ Attempted("write", "mesh", MeshStr)
    /\ AllFieldsAttempted

\* the operations that C11 names
StickyOps ==
  {"Save", "SaveField", "RegisterField", "SetMesh", "SetPrefixPath",
   "GetField", "DeleteData"}

\* C11: error is sticky. A Save, SaveField, RegisterField, SetMesh,
\* SetPrefixPath, GetField or DeleteData that is entered with error set to
\* WRITE_ERROR or READ_ERROR does not return with error = NO_ERROR.
C11_ErrorSticky ==
  (hist.op \in StickyOps /\ hist.entry # NO_ERROR) => dc.error # NO_ERROR

\* a Save entered with READ_ERROR in which nothing was refused and the mesh
\* file was written
C11_Witness ==
  /\ Returned("Save")
  /\ hist.entry = READ_ERROR
  /\ hist.clean
  /\ Succeeded("write", "mesh", MeshStr)

\* the manifest that the Load that just ran opened
OpenedManifests ==
  {fs.roots[Log[i].path] :
     i \in {j \in 1..Len(Log) :
              Log[j].ev = "open" /\ Log[j].what = "root" /\ Log[j].ok}}

\* the manifest of the Load that just ran, its mesh file and the file of
\* every field the manifest lists can be read
LoadInputsReadable ==
  /\ OpenedManifests # {}
  /\ \A doc \in OpenedManifests :
       /\ doc.parse_ok
       /\ find(doc.mesh_path, "_") # 0
       /\ CanOpen(fs, MeshFileOf(dc))
       /\ fs.files[MeshFileOf(dc)].kind = "mesh"
       /\ \A n \in DOMAIN doc.fields :
            /\ CanOpen(fs, load_name_of(dc, n))
            /\ fs.files[load_name_of(dc, n)].kind = "field"

\* C12: a fresh Load clears a previously set error. A Load entered with
\* error = WRITE_ERROR or READ_ERROR whose manifest, mesh file and field
\* files are all readable ends with error = NO_ERROR, own_data true and all
\* fields loaded.
C12_LoadClearsError ==
  (Returned("Load") /\ hist.entry # NO_ERROR /\ LoadInputsReadable) =>
    LoadedAll

\* the I/O calls of rank r in its Save
LogOf(r) == ranks[r].log

\* rank r called mkdir
CalledMkdir(r) == \E i \in 1..Len(LogOf(r)) : LogOf(r)[i].ev = "mkdir"

\* rank r opened a mesh or field file for writing
WroteData(r) ==
  \E i \in 1..Len(LogOf(r)) :
    LogOf(r)[i].ev = "write" /\ LogOf(r)[i].what \in {"mesh", "field"}

\* rank r learnt from a broadcast, before its event i, that rank 0 had
\* created the directory of the cycle, and rank 0 did call mkdir for it
CycleDirAnnounced(r, i) ==
  \E j \in 1..(i - 1) :
    /\ LogOf(r)[j].ev = "bcast" /\ LogOf(r)[j].what = "cycle" /\ LogOf(r)[j].ok
    /\ \E k \in 1..Len(LogOf(0)) :
         /\ LogOf(0)[k].ev = "mkdir"
         /\ LogOf(0)[k].path = LogOf(r)[j].path

\* all ranks save the same cycle
SameCycle == \A r \in Ranks : ranks[r].dc.cycle = ranks[0].dc.cycle

\* C13: in a multi-rank Save of one cycle only rank 0 calls mkdir, and a
\* rank other than 0 writes a mesh or field file only after rank 0 has tried
\* to create the directory and has broadcast the result.
C13_OnlyRankZeroCreates ==
  \A r \in Ranks \ {0} :
    SameCycle =>
    /\ ~CalledMkdir(r)
    /\ \A i \in 1..Len(LogOf(r)) :
         (LogOf(r)[i].ev = "write" /\ LogOf(r)[i].what \in {"mesh", "field"})
           => CycleDirAnnounced(r, i)

\* a directory creation of rank 0 failed
RankZeroMkdirFailed ==
  \E i \in 1..Len(LogOf(0)) : LogOf(0)[i].ev = "mkdir" /\ ~LogOf(0)[i].ok

\* rank 0 has created (or found) every directory of its Save
RankZeroMkdirsSucceeded ==
  /\ ranks[0].pc \in {"mesh", "fields", "root", "done"}
  /\ ~RankZeroMkdirFailed

\* rank r saw a directory creation fail, its own or the one broadcast
SawDirFailure(r) ==
  \E i \in 1..Len(LogOf(r)) :
    LogOf(r)[i].ev \in {"mkdir", "bcast"} /\ ~LogOf(r)[i].ok

\* C14: cross-rank agreement on directory failure. In a Save of the same
\* cycle on all ranks, when a directory creation of rank 0 failed, every
\* rank ends the Save with error = WRITE_ERROR and writes no mesh or field
\* file; when rank 0's creations succeeded, no rank sets WRITE_ERROR because
\* of a directory creation.
C14_RanksAgreeOnDirectoryFailure ==
  \A r \in Ranks :
    (SameCycle /\ ranks[r].pc = "done") =>
      /\ RankZeroMkdirFailed =>
           (ranks[r].dc.error = WRITE_ERROR /\ ~WroteData(r))
      /\ RankZeroMkdirsSucceeded => ~SawDirFailure(r)

\* C15: directory creation is idempotent. In a Save, the creation of a
\* directory that existed when the Save was entered reports success, so an
\* existing prefix path or cycle directory never sets WRITE_ERROR; a
\* creation is reported as failed exactly when the directory does not exist
\* after it, and then error is WRITE_ERROR.
C15_MkdirIdempotent ==
  hist.op = "Save" =>
    \A i \in 1..Len(Log) :
      Log[i].ev = "mkdir" =>
        /\ Log[i].path \in hist.dirs0 => Log[i].ok
        /\ Log[i].ok <=> Log[i].path \in fs.dirs
        /\ ~Log[i].ok => dc.error = WRITE_ERROR

\* a Save at a cycle whose directory existed already ended without error
C15_Witness ==
  /\ Returned("Save")
  /\ dc.error = NO_ERROR
  /\ \E i \in 1..Len(Log) :
       /\ Log[i].ev = "mkdir" /\ Log[i].what = "cycle"
       /\ Log[i].path \in hist.dirs0
       /\ Log[i].ok

\* the directory part of a path: what precedes its last '/'
LastSlash(path) ==
  CHOOSE i \in 0..Len(path) :
    /\ i = 0 \/ path[i] = "/"
    /\ \A j \in (i + 1)..Len(path) : path[j] # "/"

DirPart(path) == SubSeq(path, 1, LastSlash(path) - 1)

\* the naming rule of the working directory of a cycle
DirectoryRule(prefix, name, cycle, digits) ==
  IF cycle = -1 THEN prefix \o name
  ELSE prefix \o name \o <<"_">> \o to_padded_string(cycle, digits)

\* the directories the Save that just ran opened mesh and field files in
SaveDirs ==
  {DirPart(Log[i].path) :
     i \in {j \in 1..Len(Log) :
              Log[j].ev = "write" /\ Log[j].what \in {"mesh", "field"}}}

\* the directories named by the path templates of the manifest this Save
\* wrote, taken from where the manifest is
ManifestDirs ==
  {dc.prefix_path \o DirPart(fs.roots[root_name_of(dc)].mesh_path)} \cup
  {dc.prefix_path \o DirPart(fs.roots[root_name_of(dc)].fields[n].path) :
     n \in DOMAIN fs.roots[root_name_of(dc)].fields}

\* the directories LoadMesh and LoadFields read from for this name and cycle
LoadDirs ==
  {DirPart(load_name_of(dc, E)) : E \in {MeshStr} \cup DOMAIN dc.field_map}

\* C16: one directory-naming rule everywhere. After a Save that wrote the
\* mesh file and the manifest, the directory Save wrote to, the directory
\* the manifest names and the directory Load reads from are the directory of
\* the rule: prefix + name for cycle -1, prefix + name + "_" + pad(cycle)
\* otherwise.
C16_OneDirectoryRule ==
  (Returned("Save") /\ Succeeded("write", "mesh", MeshStr)
     /\ Succeeded("write", "root", <<>>)) =>
    SaveDirs \cup ManifestDirs \cup LoadDirs =
      {DirectoryRule(dc.prefix_path, dc.name, dc.cycle, dc.pad_digits)}

\* the entities a Save of collection d writes: the mesh and every
\* registered field
Entities(d) ==
  {<<"mesh", MeshStr>>} \cup {<<"field", n>> : n \in DOMAIN d.field_map}

\* the file SaveMesh or SaveOneField writes entity e to at cycle c
EntityPath(d, c, e) ==
  file_name_of([d EXCEPT !.cycle = c], dir_name_of([d EXCEPT !.cycle = c]),
               e[2])

\* C17: collision-free naming within a collection. For the name, prefix
\* path and pad_digits of a collection that has saved, two distinct (cycle,
\* entity) pairs, the entity being the mesh or a registered field, never
\* have the same file path.
C17_CollisionFreeNaming ==
  Returned("Save") =>
    \A c1 \in -1..MaxCycle, c2 \in -1..MaxCycle :
      \A e1 \in Entities(dc), e2 \in Entities(dc) :
        (<<c1, e1>> # <<c2, e2>>) =>
          EntityPath(dc, c1, e1) # EntityPath(dc, c2, e2)

\* the suffix s of rank r is pad_digits characters, zero-filled decimal
FixedWidthDecimal(s, r, digits) ==
  /\ Len(s) = digits
  /\ \A k \in 1..Len(s) : IsDigit(s[k])
  /\ NatDigits(r) = SubSeq(s, digits - Len(NatDigits(r)) + 1, digits)
  /\ \A k \in 1..(digits - Len(NatDigits(r))) : s[k] = "0"

\* C18: rank-padding invariant. For 0 <= i < 10^pad_digits the suffix
\* to_padded_string(i, pad_digits) is exactly pad_digits characters of
\* zero-filled decimal; for ranks r1 < r2 below 10^pad_digits the file name
\* of r1 sorts before that of r2; distinct ranks get distinct suffixes; a
\* suffix read back is the rank.
C18_RankPadding ==
  (pad.pc # "args") =>
    /\ (pad.r1 < Pow10(pad.digits)) =>
         FixedWidthDecimal(pad.s1, pad.r1, pad.digits)
    /\ (pad.r2 < Pow10(pad.digits)) =>
         FixedWidthDecimal(pad.s2, pad.r2, pad.digits)
    /\ (pad.r1 < pad.r2 /\ pad.r2 < Pow10(pad.digits)) =>
         StrLess(RankFileName(pad.s1), RankFileName(pad.s2))
    /\ (pad.r1 # pad.r2) => (pad.s1 # pad.s2)
    /\ (pad.pc = "parsed") => (pad.i1 = pad.r1 /\ pad.i2 = pad.r2)

\* two ranks below 10^pad_digits with a different number of decimal digits,
\* the smaller one padded, formatted and read back
C18_Witness ==
  /\ pad.pc = "parsed"
  /\ pad.digits = 2 /\ pad.r1 = 9 /\ pad.r2 = 10
  /\ pad.s1 = <<"0", "9">> /\ pad.s2 = <<"1", "0">>

\* the positions in the log of the last operation where the manifest file
\* was opened for writing
RootWrites == {i \in 1..Len(Log) : Log[i].ev = "write" /\ Log[i].what = "root"}

\* C19: the manifest is written only by rank 0, at most once per Save, and
\* a Save aborted because the prefix path or the cycle directory could not
\* be created writes no manifest file.
C19_ManifestOnlyAfterStructuralSuccess ==
  Returned("Save") =>
    /\ (RootWrites # {}) => (dc.myid = 0)
    /\ Cardinality(RootWrites) <= 1
    /\ (DirFailed("prefix") \/ DirFailed("cycle")) => (RootWrites = {})

\* how many times collection d holds object p, as its mesh or as the value
\* of a field
TimesHeld(d, p) ==
  Cardinality({n \in DOMAIN d.field_map : d.field_map[n] = p})
    + (IF d.mesh = p THEN 1 ELSE 0)

\* this step is a call of operation op on a live collection
StepOf(op) == hist'.op = op /\ hist'.ops = hist.ops + 1

\* what DeleteData and DeleteAll both do to the data: the mesh absent, every
\* field value null, own_data false, each held object released if and only
\* if own_data was true
DataDeleted ==
  /\ dc'.mesh = NULL
  /\ \A n \in DOMAIN dc'.field_map : dc'.field_map[n] = NULL
  /\ dc'.own_data = FALSE
  /\ \A p \in DOMAIN heap :
       heap'[p].released =
         heap[p].released + (IF dc.own_data THEN TimesHeld(dc, p) ELSE 0)

\* C20: DeleteData leaves the set of registered field names unchanged while
\* making the mesh absent, every field value null and own_data false,
\* releasing the objects only if own_data was true; DeleteAll does the same
\* and leaves field_map and field_info_map empty.
C20_DeleteDataKeepsNames ==
  [][ /\ StepOf("DeleteData") =>
           /\ DataDeleted
           /\ DOMAIN dc'.field_map = DOMAIN dc.field_map
      /\ StepOf("DeleteAll") =>
           /\ DataDeleted
           /\ dc'.field_map = EmptyMap
           /\ dc'.field_info_map = EmptyMap ]_vars

\* DeleteData has run on a collection that owned a loaded mesh and a loaded
\* field: the field name is still registered, its value is null, and both
\* objects were released
C20_Witness ==
  /\ Returned("DeleteData")
  /\ DOMAIN dc.field_map # {}
  /\ \A n \in DOMAIN dc.field_map : dc.field_map[n] = NULL
  /\ dc.mesh = NULL /\ ~dc.own_data
  /\ Cardinality({p \in hist.loaded_ok : heap[p].released = 1}) >= 2

\* the field values this step replaced by another value
Overwritten ==
  {dc.field_map[n] : n \in {k \in DOMAIN dc.field_map :
                              dc'.field_map[k] # dc.field_map[k]}} \ {NULL}

\* C21: re-registration releases the old value. When own_data is true and
\* RegisterField(name, gf) is called, the value held under that name before
\* is released exactly once, and no other field and not the mesh is
\* released.
C21_ReRegistrationReleasesOld ==
  [][ (StepOf("RegisterField") /\ dc.own_data) =>
        /\ dc'.mesh = dc.mesh
        /\ DOMAIN dc.field_map \subseteq DOMAIN dc'.field_map
        /\ \A p \in DOMAIN heap :
             heap'[p].released =
               heap[p].released + (IF p \in Overwritten THEN 1 ELSE 0) ]_vars

\* after one Load of a mesh and a field, RegisterField replaced the loaded
\* field by a field of the caller: the loaded field is released once, the
\* loaded mesh is still held and not released
C21_Witness ==
  /\ Returned("RegisterField")
  /\ dc.own_data
  /\ dc.mesh \in hist.loaded_ok /\ heap[dc.mesh].released = 0
  /\ \E n \in DOMAIN dc.field_map : dc.field_map[n] \in CallerFields
  /\ \E p \in hist.loaded_ok :
       /\ heap[p].kind = "field" /\ heap[p].released = 1 /\ ~Holds(dc, p)
       /\ \A q \in DOMAIN heap \ {p} :
            heap[q].kind = "field" => q \in CallerFields

\* the manifests the last operation wrote
WrittenManifests ==
  {fs.roots[Log[i].path] :
     i \in {j \in 1..Len(Log) :
              Log[j].ev = "write" /\ Log[j].what = "root" /\ Log[j].ok}}

\* C22: field_map and field_info_map stay in lockstep. In every state of a
\* VisItDataCollection reached through RegisterField, Save, SaveField,
\* DeleteData, DeleteAll and Load, successful or failed, the keys of
\* field_info_map are the keys of field_map, and the manifest a Save writes
\* lists exactly the registered fields.
C22_FieldInfoLockstep ==
  Live(W0) =>
    /\ DOMAIN dc.field_info_map = DOMAIN dc.field_map
    /\ Returned("Save") =>
         \A doc \in WrittenManifests : DOMAIN doc.fields = DOMAIN dc.field_map

\* a field was registered and saved, a Load has read it back, and a Save of
\* the loaded collection has written a manifest that lists it
C22_Witness ==
  /\ Returned("Save")
  /\ hist.ever_loaded
  /\ DOMAIN dc.field_map # {}
  /\ \E doc \in WrittenManifests : DOMAIN doc.fields # {}

\* the Load of this step could not read its manifest, could not parse it,
\* or found no '_' in its mesh path
ManifestUnusable ==
  \E i \in 1..Len(hist'.log) :
    /\ hist'.log[i].what = "root" /\ ~hist'.log[i].ok
    /\ hist'.log[i].ev \in {"open", "parse"}

\* C23: malformed manifest handling. When the manifest cannot be read,
\* cannot be parsed, or its mesh path holds no '_', Load sets error =
\* READ_ERROR and stops before opening the mesh file, and name, spatial_dim,
\* topo_dim and field_info_map take nothing from that manifest.
C23_MalformedManifest ==
  [][ (StepOf("Load") /\ ManifestUnusable) =>
        /\ dc'.status = "live"
        /\ dc'.error = READ_ERROR
        /\ \A i \in 1..Len(hist'.log) :
             ~(hist'.log[i].ev = "open" /\ hist'.log[i].what \in {"mesh", "field"})
        /\ dc'.name = dc.name
        /\ dc'.spatial_dim = dc.spatial_dim
        /\ dc'.topo_dim = dc.topo_dim
        /\ \A n \in DOMAIN dc'.field_info_map :
             /\ n \in DOMAIN dc.field_info_map
             /\ dc'.field_info_map[n] = dc.field_info_map[n] ]_vars

\* a Load has read a manifest whose mesh path holds no '_' and whose tags
\* are not the dimensions of the collection
C23_Witness ==
  /\ Returned("Load")
  /\ Failed("parse", "root", <<>>)
  /\ \E doc \in OpenedManifests :
       /\ doc.parse_ok /\ find(doc.mesh_path, "_") = 0
       /\ to_int(doc.spatial_dim) # dc.spatial_dim
       /\ doc.has_fields
  /\ dc.error = READ_ERROR

\* this step wrote the file of field n, and only it, or failed to open it
WroteOnlyField(n) ==
  LET path == file_name_of(dc, dir_name_of(dc), n) IN
  /\ Len(hist'.log) = 1
  /\ hist'.log[1].ev = "write" /\ hist'.log[1].what = "field"
  /\ hist'.log[1].name = n /\ hist'.log[1].path = path
  /\ DOMAIN fs.files \subseteq DOMAIN fs'.files
  /\ \A q \in DOMAIN fs'.files \ {path} :
       q \in DOMAIN fs.files /\ fs'.files[q] = fs.files[q]
  /\ IF hist'.log[1].ok
     THEN /\ fs'.files[path] = Content(heap[dc.field_map[n]])
          /\ dc'.error = dc.error
     ELSE /\ fs'.files = fs.files
          /\ dc'.error = WRITE_ERROR

OpenedManifestPaths ==
  {Log[i].path :
     i \in {j \in 1..Len(Log) :
              Log[j].ev = "open" /\ Log[j].what = "root" /\ Log[j].ok}}

\* C25: name recovery on Load. When Load reads a manifest that Save wrote
\* for a collection named N, the name taken from the manifest's mesh path is
\* N: the manifest Load opened is the manifest of the collection as it is
\* named after the Load, and the mesh file is looked up in the directory of
\* that name.
C25_NameRecovered ==
  (Returned("Load") /\ Succeeded("parse", "root", <<>>)) =>
    /\ OpenedManifestPaths = {root_name_of(dc)}
    /\ \A i \in 1..Len(Log) :
         (Log[i].ev = "open" /\ Log[i].what = "mesh") =>
           DirPart(Log[i].path) \o RootExt = root_name_of(dc)

\* the log of the last operation holds, before position i, an attempt to
\* write entity (what, name)
AttemptedBefore(i, what, name) ==
  \E j \in 1..(i - 1) :
    Log[j].ev = "write" /\ Log[j].what = what /\ Log[j].name = name

\* C26: manifest ordering within a Save. In every Save in which rank 0
\* writes the manifest, it has before that, in the same call, attempted the
\* write of its mesh file and of the file of each registered field.
C26_ManifestAfterDataWrites ==
  Returned("Save") =>
    \A i \in RootWrites :
      /\ AttemptedBefore(i, "mesh", MeshStr)
      /\ \A n \in DOMAIN dc.field_map : AttemptedBefore(i, "field", n)

\* the next step of rank r inside its Save
RankStep(r) ==
  \/ MpiMkdir(r) \/ MpiBcastRoot(r) \/ MpiBcastRecv(r)
  \/ MpiWriteMesh(r) \/ MpiWriteFields(r) \/ MpiWriteRoot(r)

\* rank r is inside Save
InSave(r) == ranks[r].pc \notin {"idle", "done", "dead"}

\* rank r waits in the MPI_Bcast of create_directory for the result of rank 0
WaitsInBcast(r) ==
  /\ ranks[r].pc \in {"prefix", "cycle"}
  /\ ~CallsMkdir(ranks[r].dc, heap)
  /\ net[r] = <<>>

\* C27: no cross-rank fence before the manifest. The only place where a
\* rank inside Save waits for another rank is the broadcast of
\* create_directory: everywhere else, and so before the manifest is
\* written, its next step can be taken whatever the other ranks have done.
\* The state in which the manifest is on disk while a file of another rank
\* is not is C27_Witness.
C27_NoFenceBeforeManifest ==
  \A r \in Ranks :
    (InSave(r) /\ ~WaitsInBcast(r)) => ENABLED RankStep(r)

\* rank 0 has returned without error from a Save in which it wrote the
\* manifest of its cycle, and another rank of the same cycle is still inside Save, past the
\* broadcast, with its mesh file not on disk
C27_Witness ==
  /\ ranks[0].pc = "done"
  /\ ranks[0].dc.error = NO_ERROR
  /\ \E i \in 1..Len(ranks[0].log) :
       /\ ranks[0].log[i].ev = "write" /\ ranks[0].log[i].what = "root"
       /\ ranks[0].log[i].ok
  /\ root_name_of(ranks[0].dc) \in DOMAIN fs.roots
  /\ \E r \in Ranks \ {0} :
       /\ ranks[r].pc = "mesh"
       /\ ranks[r].dc.cycle = ranks[0].dc.cycle
       /\ ~CanOpen(fs, file_name_of(ranks[r].dc, dir_name_of(ranks[r].dc),
                                    MeshStr))

\* the files rank r opened for writing in its Save
RankWrites(r) ==
  {ranks[r].log[i] :
     i \in {j \in 1..Len(ranks[r].log) : ranks[r].log[j].ev = "write"}}

\* the path ends with '.' and the padded rank r
HasRankSuffix(path, r, digits) ==
  /\ Len(path) > digits
  /\ SubSeq(path, Len(path) - digits, Len(path)) =
       <<".">> \o to_padded_string(r, digits)

\* C28: one writer per file. In a multi-rank Save no file path is written
\* by two different ranks: each rank writes its mesh and field files under
\* its own padded rank suffix, and the manifest, which has no suffix, is
\* written by rank 0 only.
C28_OneWriterPerFile ==
  \A r \in Ranks :
    \A e \in RankWrites(r) :
      /\ (e.what = "root") => (r = 0)
      /\ (e.what # "root") =>
           HasRankSuffix(e.path, r, ranks[r].dc.pad_digits)
      /\ \A q \in Ranks \ {r} : \A x \in RankWrites(q) : x.path # e.path

\* every rank has returned from a Save of the same cycle in which it wrote
\* its mesh file and its field file, and rank 0 the manifest
C28_Witness ==
  /\ \A r \in Ranks :
       /\ ranks[r].pc = "done"
       /\ ranks[r].dc.cycle = ranks[0].dc.cycle
       /\ \E e \in RankWrites(r) : e.what = "mesh" /\ e.ok
       /\ \E e \in RankWrites(r) : e.what = "field" /\ e.ok
  /\ \E e \in RankWrites(0) : e.what = "root" /\ e.ok

\* the parallel run under the scheduling of its processes: a process that
\* can take its next step inside Save takes it, and every rank calls Save
SpecMPILive ==
  /\ InitMPI /\ [][NextMPI]_vars
  /\ \A r \in Ranks : WF_vars(RankStep(r)) /\ WF_vars(MpiSaveBegin(r))

\* C29: Save terminates on every rank. When all ranks call Save, every
\* rank's Save eventually returns, for every outcome of the directory
\* creations and of the file writes: no rank waits forever in a broadcast
\* that another rank never enters.
C29_SaveTerminates ==
  (\A r \in Ranks : <>(ranks[r].pc # "idle")) =>
    (\A r \in Ranks : <>(ranks[r].pc = "done"))

\* path starts with the directory dir and a '/'
InDirectory(path, dir) ==
  /\ Len(path) > Len(dir)
  /\ SubSeq(path, 1, Len(dir) + 1) = dir \o <<"/">>

\* the path templates of a manifest
TemplatePaths(doc) ==
  {doc.mesh_path} \cup {doc.fields[n].path : n \in DOMAIN doc.fields}

\* C30: the manifest is relocatable. The manifest a Save writes does not
\* depend on the prefix path: the collection with any other prefix path
\* produces the same document; and every path in it starts with the name of
\* the directory of the cycle, relative to the place of the manifest.
C30_ManifestRelocatable ==
  Returned("Save") =>
    \A doc \in WrittenManifests :
      /\ \A prefix \in PrefixArgs :
           GetVisItRootString(SetPrefixPathTo(dc, prefix)) = doc
      /\ \A path \in TemplatePaths(doc) :
           InDirectory(path,
                       DirectoryRule(<<>>, dc.name, dc.cycle, dc.pad_digits))

\* the sequence of names is in increasing order of std::string
Increasing(names) ==
  \A i \in 1..Len(names) : \A j \in (i + 1)..Len(names) :
    StrLess(names[i], names[j])

\* the manifest doc records collection d
Records(doc, d) ==
  /\ doc.cycle = d.cycle
  /\ doc.domains = d.num_procs
  /\ DOMAIN doc.fields = DOMAIN d.field_info_map
  /\ {doc.order[i] : i \in 1..Len(doc.order)} = DOMAIN d.field_info_map
  /\ Len(doc.order) = Cardinality(DOMAIN d.field_info_map)
  /\ Increasing(doc.order)
  /\ \A n \in DOMAIN doc.fields :
       /\ doc.fields[n].assoc = d.field_info_map[n].association
       /\ to_int(doc.fields[n].comps) = d.field_info_map[n].num_components
  /\ doc.has_fields = (DOMAIN d.field_map # {})

\* C31: manifest content reflects the collection at Save time. The manifest
\* records the current cycle, domains = num_procs, one entry per key of
\* field_info_map, in the order of the names, with the field's association
\* and number of components, and has no "fields" member when no field is
\* registered; a Load of a manifest without "fields" ends with an empty
\* field_info_map and an empty field_map.
C31_ManifestReflectsCollection ==
  /\ Returned("Save") => \A doc \in WrittenManifests : Records(doc, dc)
  /\ (Returned("Load") /\ \E doc \in OpenedManifests : ~doc.has_fields) =>
       (dc.field_info_map = EmptyMap /\ dc.field_map = EmptyMap)

\* a Load without error has read a manifest without "fields" while the
\* manifest of another cycle, saved with a registered field, lists it
C31_Witness ==
  /\ Returned("Load") /\ dc.error = NO_ERROR
  /\ \E doc \in OpenedManifests : doc.parse_ok /\ ~doc.has_fields
  /\ \E path \in DOMAIN fs.roots :
       /\ fs.roots[path].has_fields
       /\ fs.roots[path].order # <<>>
       /\ fs.roots[path].cycle # dc.cycle

\* this step is an operation on one collection object, which is alive
\* before and after it
SameObject == dc.status = "live" /\ dc'.status = "live"

\* this step released everything the collection held, once per holding, the
\* objects the caller handed over included
ReleasedAllHeld ==
  \A p \in DOMAIN heap :
    heap'[p].released = heap[p].released + TimesHeld(dc, p)

\* C32: own_data changes only in Load and DeleteData/DeleteAll. It becomes
\* true only at the end of a Load that finished without error, becomes false
\* only in DeleteData, directly or through DeleteAll or Load, and is left
\* unchanged by RegisterField, SetMesh, Save and SaveField; so every object
\* handed to RegisterField or SetMesh after a successful Load is owned by
\* the collection and is released by the next DeleteData, DeleteAll, Load or
\* destruction.
C32_OwnDataChanges ==
  [][ /\ (SameObject /\ ~dc.own_data /\ dc'.own_data) =>
           (StepOf("Load") /\ dc'.error = NO_ERROR)
      /\ (SameObject /\ dc.own_data /\ ~dc'.own_data) =>
           (StepOf("DeleteData") \/ StepOf("DeleteAll") \/ StepOf("Load"))
      /\ (StepOf("RegisterField") \/ StepOf("SetMesh") \/ StepOf("Save")
            \/ StepOf("SaveField")) => (dc'.own_data = dc.own_data)
      /\ (dc.own_data /\ (StepOf("DeleteData") \/ StepOf("DeleteAll")
                            \/ StepOf("Load") \/ StepOf("Destroy"))) =>
           ReleasedAllHeld ]_vars

\* after a successful Load the caller registered its own field, and the
\* DeleteData that followed released that field
C32_Witness ==
  /\ Returned("DeleteData")
  /\ hist.ever_loaded
  /\ ~dc.own_data
  /\ \E p \in CallerFields : heap[p].released = 1
  /\ \E n \in DOMAIN dc.field_map : dc.field_map[n] = NULL

\* C33: Save and SaveField never serialize through an absent handle. In
\* every state reached by the public operations, DeleteData included, a Save
\* that reaches the mesh write finds the mesh present and a Save or
\* SaveField that reaches a field write finds the field present: no Save
\* and no SaveField ends in the dereference of a null handle.
C33_NoSaveThroughAbsentHandle ==
  (hist.op \in {"Save", "SaveField"}) => (dc.status # "crashed")

\* the members of the collection other than error
Members(d) ==
  <<d.field_map, d.field_info_map, d.mesh, d.own_data, d.name, d.prefix_path,
    d.cycle, d.time, d.myid, d.num_procs>>

\* C34: Save and SaveField change no member of the collection other than
\* error: field_map, field_info_map, mesh, own_data, name, prefix_path,
\* cycle, time, myid and num_procs are the same before and after the call,
\* whether it succeeds or fails.
C34_SaveChangesOnlyError ==
  [][ (StepOf("Save") \/ StepOf("SaveField")) =>
        /\ Members(dc') = Members(dc)
        /\ heap' = heap ]_vars

\* a Save of a collection with a mesh and a field that started without
\* error has failed in the write of the field, after the mesh was written
C34_Witness ==
  /\ Returned("Save")
  /\ hist.entry = NO_ERROR /\ dc.error = WRITE_ERROR
  /\ Succeeded("write", "mesh", MeshStr)
  /\ \E n \in DOMAIN dc.field_map :
       Failed("write", "field", n) /\ dc.field_map[n] # NULL

\* the file name of a path, without its directory
FilePart(path) == SubSeq(path, LastSlash(path) + 1, Len(path))

\* C35: a VisItDataCollection always uses rank-suffixed file names. serial
\* is false in every reachable state, after either constructor, SetMesh,
\* Load, DeleteData and DeleteAll, so the file names Save writes, "mesh" and
\* the field names with the padded rank, are the names Load opens, in a
\* single-process run as well.
C35_AlwaysRankSuffixed ==
  /\ ~dc.serial
  /\ (Returned("Save") \/ Returned("SaveField") \/ Returned("Load")) =>
       \A i \in 1..Len(Log) :
         (Log[i].what \in {"mesh", "field"}) =>
           /\ HasRankSuffix(Log[i].path, dc.myid, dc.pad_digits)
           /\ FilePart(Log[i].path) =
                FilePart(file_name_of(dc, <<>>, Log[i].name))
           /\ FilePart(Log[i].path) =
                FilePart(load_name_of(dc, Log[i].name))

\* in a single-process run a mesh and a field were saved, and a Load has
\* opened the mesh file and the field file under the names Save wrote
C35_Witness ==
  /\ Returned("Load") /\ dc.error = NO_ERROR
  /\ dc.num_procs = 1
  /\ Succeeded("open", "mesh", MeshStr)
  /\ \E n \in DOMAIN dc.field_map : Succeeded("open", "field", n)

============================================================================
